---- MODULE Spec2Model ----
(***************************************************************************)
(* TL2 software transactional memory of src/src/tl2.rs, with the driver    *)
(* loops STM::write_transaction and STM::read_transaction, as a state      *)
(* machine.  Threads interleave at the granularity of one atomic access    *)
(* (one lock word load / RMW / store, one global clock access) and of one  *)
(* byte of the buffer; the interleaving is sequentially consistent.        *)
(* Transaction bodies (the closures handed to the drivers) are small       *)
(* straight-line programs over the public API (load, store, the load! and  *)
(* store! macros), chosen by Init.  SpecPhil runs the two closures of      *)
(* philosopher in src/src/main.rs on every thread.                         *)
(***************************************************************************)
EXTENDS Integers, Sequences, FiniteSets, TLC

\* src/src/tl2.rs:6
STRIPE_SIZE == 8
\* Size of the buffer in bytes.  src/src/tl2.rs:7 sets 512; the model keeps
\* the two stripes src/src/main.rs uses (addresses 0 and 8).
MEM_SIZE == 16
\* src/src/main.rs:6; the number of threads main spawns.
NUM_PHILOSOPHERS == 2
\* Attempts (iterations of the driver's loop) one call may make in the
\* model; the code's loop is unbounded.
MaxAttempts == 2
\* Times a philosopher tries to pick up the chopsticks in one eat-cycle in
\* the model; the loop of src/src/main.rs:14 is unbounded.
MaxPickups == 2

Threads == 0 .. (NUM_PHILOSOPHERS - 1)

VARIABLES
    mem,            \* Memory.mem: byte address -> byte
    lock_ver,       \* Memory.lock_ver: stripe index -> lock word
    global_clock,   \* Memory.global_clock
    prog,           \* per thread: the sequence of driver calls it makes
    pc,             \* per thread: position in the driver / transaction code
    call,           \* per thread: index in prog[t] of the current call
    attempts,       \* per thread: loop iterations started by the current call
    after,          \* per thread: what follows the drop of the transaction
    result,         \* per thread: the values returned by its calls so far
    tr,             \* per thread: the WriteTrans / ReadTrans of the attempt
    loc,            \* per thread: locals of the running function and body
    hist,           \* history: the transactions that committed
    returned,       \* history: the calls that have returned
    gh,             \* history, per thread: facts about the current call
    owner,          \* history: stripe index -> thread that set its bit 63
    solo            \* history, per thread: its attempt has run alone so far

vars == <<mem, lock_ver, global_clock, prog, pc, call, attempts, after, result,
          tr, loc, hist, returned, gh, owner, solo>>

shared == <<mem, lock_ver, global_clock>>

\* No thread: the owner of a stripe whose bit 63 nobody set.
NoThread == NUM_PHILOSOPHERS

----------------------------------------------------------------------------
(* Stripes, addresses, lock words *)

\* [0; STRIPE_SIZE]
ZeroStripe == [i \in 1 .. STRIPE_SIZE |-> 0]

Fill(b) == [i \in 1 .. STRIPE_SIZE |-> b]

\* Memory::new: the position of the lowest set bit of STRIPE_SIZE
shift_size ==
    CHOOSE s \in 0 .. 16 :
        /\ (STRIPE_SIZE \div (2 ^ s)) % 2 = 1
        /\ \A k \in 0 .. (s - 1) : (STRIPE_SIZE \div (2 ^ k)) % 2 = 0

\* addr >> self.shift_size
StripeIdx(addr) == addr \div (2 ^ shift_size)

\* MEM_SIZE >> shift: the number of lock words
NumLocks == MEM_SIZE \div (2 ^ shift_size)

\* addr & (STRIPE_SIZE - 1) == 0, STRIPE_SIZE a power of two
Aligned(addr) == addr % STRIPE_SIZE = 0

\* lock_ver[addr >> shift] and mem[addr..addr + STRIPE_SIZE] do not panic
InRange(addr) ==
    /\ StripeIdx(addr) \in 0 .. (NumLocks - 1)
    /\ addr + STRIPE_SIZE <= MEM_SIZE

ValidAddr(addr) == Aligned(addr) /\ InRange(addr)

\* The stripe addresses of the buffer.
StripeAddrs == {a \in 0 .. (MEM_SIZE - 1) : ValidAddr(a)}

\* The first aligned address past the buffer, and an unaligned one inside it.
OutAddr == STRIPE_SIZE * ((MEM_SIZE + STRIPE_SIZE - 1) \div STRIPE_SIZE)
OddAddr == (STRIPE_SIZE \div 2) - 1

\* A 64-bit lock word, as bit 63 and bits 0-62.
Word(b, v) == [bit63 |-> b, low |-> v]

\* n <= rv for a lock word n and a clock value rv < 2^63
WordLeq(n, rv) == n.bit63 = 0 /\ n.low <= rv

\* mem[addr..addr + STRIPE_SIZE]
StripeAt(m, addr) == [i \in 1 .. STRIPE_SIZE |-> m[addr + i - 1]]

\* An insert that keeps the value of a key the map holds.
write_set_insert_first(f, k, v) ==
    [x \in (DOMAIN f) \cup {k} |-> IF x \in DOMAIN f THEN f[x] ELSE v]

\* self.write_set.insert(addr, val): HashMap::insert replaces the value of
\* a key the map holds
write_set_insert(f, k, v) ==
    [x \in (DOMAIN f) \cup {k} |-> IF x = k THEN v ELSE f[x]]

EmptyMap == <<>>

----------------------------------------------------------------------------
(* Memory's helpers *)

\* test_not_modify with bit 63 masked off.
test_not_modify_masked(addr, rv) == lock_ver[StripeIdx(addr)].low <= rv

test_not_modify(addr, rv) == WordLeq(lock_ver[StripeIdx(addr)], rv)

\* A get_addr_ver that reads no version.
get_addr_ver_zero(addr) == 0

get_addr_ver(addr) == lock_ver[StripeIdx(addr)].low

\* A lock_addr that never takes the lock.
lock_addr_never(addr) == FALSE

\* A lock_addr that takes the lock whatever bit 63 is.
lock_addr_always(addr) == TRUE

\* the closure of fetch_update in lock_addr: Some(val | 1 << 63) or None
lock_addr_ok(addr) == lock_ver[StripeIdx(addr)].bit63 = 0

\* A lock_addr that stores bit 63 alone.
lock_addr_word_bare(w) == Word(1, 0)

lock_addr_word(w) == Word(1, w.low)

\* A fetch_and that clears the whole word.
unlock_addr_word_cleared(w) == Word(0, 0)

\* fetch_and(!(1 << 63))
unlock_addr_word(w) == Word(0, w.low)

\* lock_ver[idx].store(ver): a plain store of ver, whose bit 63 is 0
publish_word(w, v) == Word(0, v)

----------------------------------------------------------------------------
(* Transaction bodies: the closures handed to the drivers *)

\* One statement of a body.  op is
\*   "load"      regs[reg] = load!(tr, addr): a None makes the body return Retry
\*   "rawload"   tr.load(addr) called directly: a None leaves regs[reg] as it is
\*   "store"     store!(tr, addr, arg)
\*   "store_inc" store!(tr, addr, regs[reg] + 1 as a little-endian u64)
\*   "store_set0" f = regs[reg]; f[0] = arg; store!(tr, addr, f)
\*   "ifz"       if regs[reg][0] == 0 { next statement } else { statement addr }
\*   "ret"       return STMResult::arg (with the value reg, for Ok)
Ins(op, addr, reg, arg) == [op |-> op, addr |-> addr, reg |-> reg, arg |-> arg]

ILoad(a, r) == Ins("load", a, r, 0)
IRawLoad(a, r) == Ins("rawload", a, r, 0)
IStore(a, s) == Ins("store", a, 0, s)
IStoreInc(a, r) == Ins("store_inc", a, r, 0)
IStoreSet0(a, r, b) == Ins("store_set0", a, r, b)
IfZero(r, else) == Ins("ifz", else, r, 0)
IRet(res) == Ins("ret", 0, 0, res)
IRetOk(v) == Ins("ret", 0, v, "Ok")

\* One call of a driver: kind "w" is write_transaction, "r" read_transaction.
\* loop: the call stands in `while !stm.write_transaction(..) {}` and is made
\* again until it returns true.
WCall(body) == [kind |-> "w", body |-> body, loop |-> FALSE]
RCall(body) == [kind |-> "r", body |-> body, loop |-> FALSE]
WCallWhileNot(body) == [kind |-> "w", body |-> body, loop |-> TRUE]

\* (u64::from_le_bytes(s) + 1).to_le_bytes(), wrapping, on the bytes
RECURSIVE IncFrom(_, _)
IncFrom(s, i) ==
    IF i > Len(s) THEN s
    ELSE IF s[i] = 255 THEN IncFrom([s EXCEPT ![i] = 0], i + 1)
    ELSE [s EXCEPT ![i] = s[i] + 1]

IncLe(s) == IncFrom(s, 1)

\* n.to_le_bytes() for a u64 n
RECURSIVE LeBytes(_, _)
LeBytes(n, k) == IF k = 0 THEN <<>> ELSE <<n % 256>> \o LeBytes(n \div 256, k - 1)

ToLe(n) == LeBytes(n, STRIPE_SIZE)

\* The statement control reaches from statement i: the branches of the body
\* are taken on the values loaded so far.
RECURSIVE Resolve(_, _, _)
Resolve(body, regs, i) ==
    IF body[i].op = "ifz"
    THEN IF regs[body[i].reg][1] = 0
         THEN Resolve(body, regs, i + 1)
         ELSE Resolve(body, regs, body[i].addr)
    ELSE i

CurCall(t) == prog[t][call[t]]
CurKind(t) == CurCall(t).kind
CurIns(t) == CurCall(t).body[loc[t].bpc]
CurId(t) == <<t, call[t]>>
NextStmt(t, regs, i) == Resolve(CurCall(t).body, regs, i)

\* The stripe a store statement hands to store.
StoreVal(t) ==
    LET i == CurIns(t) IN
    CASE i.op = "store" -> i.arg
      [] i.op = "store_inc" -> IncLe(loc[t].regs[i.reg])
      [] i.op = "store_set0" -> [loc[t].regs[i.reg] EXCEPT ![1] = i.arg]

----------------------------------------------------------------------------
(* Per-thread records *)

\* No transaction object (before the first attempt, after a drop).
NoTrans ==
    [read_ver |-> 0, read_set |-> {}, write_set |-> EmptyMap,
     locked |-> <<>>, is_abort |-> FALSE]

NoLoc ==
    [bpc |-> 1, regs |-> EmptyMap, cur |-> 0, idx |-> 0, buf |-> ZeroStripe,
     todo |-> {}, ver |-> 0]

NoOp == [op |-> "-", addr |-> 0, out |-> "-", val |-> ZeroStripe,
         src |-> "-", aborted |-> FALSE]

\* History of one call: the calls that had returned when it started, and
\* what its attempts did to the shared state.  stale: the stripes the
\* attempt loaded from memory that another transaction has published since,
\* before the attempt began to lock its write set.  vfail: the attempts of
\* the thread that incremented the clock and did not go on to commit.
NoGh ==
    [before |-> {}, readlog |-> {}, stored |-> EmptyMap, lastop |-> NoOp,
     lastret |-> "-", lastabort |-> FALSE, bodies |-> 0, loops |-> {},
     cClock |-> 0, cBytes |-> 0, cPub |-> 0,
     aClock |-> 0, aBytes |-> 0, aPub |-> 0, aLock |-> 0,
     stale |-> {}, vfail |-> 0]

----------------------------------------------------------------------------
(* Initial states *)

InitShared ==
    /\ mem = [a \in 0 .. (MEM_SIZE - 1) |-> 0]
    /\ lock_ver = [i \in 0 .. (NumLocks - 1) |-> Word(0, 0)]
    /\ global_clock = 0

InitThreads ==
    /\ pc = [t \in Threads |-> "idle"]
    /\ call = [t \in Threads |-> 0]
    /\ attempts = [t \in Threads |-> 0]
    /\ after = [t \in Threads |-> "-"]
    /\ result = [t \in Threads |-> <<>>]
    /\ tr = [t \in Threads |-> NoTrans]
    /\ loc = [t \in Threads |-> NoLoc]
    /\ hist = {}
    /\ returned = {}
    /\ gh = [t \in Threads |-> NoGh]
    /\ owner = [i \in 0 .. (NumLocks - 1) |-> NoThread]
    /\ solo = [t \in Threads |-> FALSE]

----------------------------------------------------------------------------
(* The driver loops and the transactions, one action per step *)

\* The history of a step of t: the attempt t starts runs alone if no lock
\* bit is set then, and goes on running alone until another thread takes a
\* step or it is over.
Alone(t) ==
    solo' = [u \in Threads |->
                IF u # t THEN FALSE
                ELSE IF pc[t] = "new"
                THEN \A i \in DOMAIN lock_ver : lock_ver[i].bit63 = 0
                ELSE IF pc[t] = "drop" /\ tr[t].locked = <<>> THEN FALSE
                ELSE solo[t]]

\* The value the last call of t returned was Some(true).
ReturnedTrue(t) ==
    /\ result[t] # <<>>
    /\ result[t][Len(result[t])].ret = "Some"
    /\ result[t][Len(result[t])].val = 1

\* The call that follows call c of t.  A call in a `while !` loop that
\* returned true is followed by the first call after the loop; one that did
\* not is made again, as the next of the MaxPickups copies prog[t] holds of
\* it (after the last copy the thread stops).
NextCall(t, c) ==
    IF c = 0 \/ ~prog[t][c].loop THEN c + 1
    ELSE IF ReturnedTrue(t)
    THEN CHOOSE k \in (c + 1) .. (Len(prog[t]) + 1) :
            /\ k \in DOMAIN prog[t] => ~prog[t][k].loop
            /\ \A j \in (c + 1) .. (k - 1) : prog[t][j].loop
    ELSE IF c + 1 \in DOMAIN prog[t] /\ prog[t][c + 1].loop
    THEN c + 1
    ELSE Len(prog[t]) + 1

\* A thread calls write_transaction or read_transaction.
Call(t) ==
    /\ pc[t] = "idle"
    /\ NextCall(t, call[t]) \in DOMAIN prog[t]
    /\ call' = [call EXCEPT ![t] = NextCall(t, call[t])]
    /\ attempts' = [attempts EXCEPT ![t] = 0]
    /\ pc' = [pc EXCEPT ![t] = "new"]
    /\ gh' = [gh EXCEPT ![t] = [NoGh EXCEPT !.before = returned,
                                           !.vfail = gh[t].vfail]]
    /\ UNCHANGED <<shared, prog, after, result, tr, loc, hist, returned, owner>>
    /\ Alone(t)

\* WriteTrans::new / ReadTrans::new at the top of the driver's loop:
\* the transaction samples the global clock.
NewTrans(t) ==
    /\ pc[t] = "new"
    /\ attempts[t] < MaxAttempts
    /\ attempts' = [attempts EXCEPT ![t] = @ + 1]
    /\ tr' = [tr EXCEPT ![t] = [NoTrans EXCEPT !.read_ver = global_clock]]
    /\ loc' = [loc EXCEPT ![t] = [NoLoc EXCEPT !.bpc = NextStmt(t, EmptyMap, 1)]]
    /\ pc' = [pc EXCEPT ![t] = "body"]
    /\ gh' = [gh EXCEPT ![t] = [@ EXCEPT !.readlog = {}, !.stored = EmptyMap,
                                        !.lastop = NoOp, !.bodies = @ + 1,
                                        !.lastret = "-", !.lastabort = FALSE,
                                        !.aClock = 0, !.aBytes = 0,
                                        !.aPub = 0, !.aLock = 0,
                                        !.stale = {}]]
    /\ UNCHANGED <<shared, prog, call, after, result, hist, returned, owner>>
    /\ Alone(t)

\* The record the history keeps of the last load or store of a body.
OpRec(t, op, out, val, src) ==
    [op |-> op, addr |-> CurIns(t).addr, out |-> out, val |-> val, src |-> src,
     aborted |-> tr[t].is_abort]

\* A panic unwinds the driver: the transaction is dropped and the call
\* never returns.
Panics(t, op) ==
    /\ pc' = [pc EXCEPT ![t] = "drop"]
    /\ after' = [after EXCEPT ![t] = "panic"]
    /\ gh' = [gh EXCEPT ![t].lastop = OpRec(t, op, "panic", ZeroStripe, "-")]

\* load returns Some(v) to the body.
LoadSome(t, v, src) ==
    /\ pc' = [pc EXCEPT ![t] = "body"]
    /\ LET regs == (CurIns(t).reg :> v) @@ loc[t].regs IN
       loc' = [loc EXCEPT ![t] =
                  [NoLoc EXCEPT !.bpc = NextStmt(t, regs, loc[t].bpc + 1),
                                !.regs = regs]]
    /\ gh' = [gh EXCEPT ![t] =
                 [@ EXCEPT !.lastop = OpRec(t, "load", "some", v, src),
                           !.readlog = IF src = "mem"
                                       THEN @ \cup {<<CurIns(t).addr, v>>}
                                       ELSE @]]
    /\ UNCHANGED after

\* load returns None to the body: the load! macro returns Retry from the
\* body, a direct call goes on with the next statement.
LoadNone(t, v) ==
    /\ pc' = [pc EXCEPT ![t] = IF CurIns(t).op = "load" THEN "ret" ELSE "body"]
    /\ loc' = [loc EXCEPT ![t] =
                  [NoLoc EXCEPT !.bpc = IF CurIns(t).op = "load"
                                        THEN loc[t].bpc
                                        ELSE NextStmt(t, loc[t].regs, loc[t].bpc + 1),
                                !.regs = loc[t].regs]]
    /\ gh' = [gh EXCEPT ![t].lastop = OpRec(t, "load", "none", v, "-")]
    /\ UNCHANGED after

\* WriteTrans::load up to the pre validation.
LoadEnter(t) ==
    /\ pc[t] = "body"
    /\ CurKind(t) = "w"
    /\ CurIns(t).op \in {"load", "rawload"}
    /\ LET a == CurIns(t).addr
           ins == [tr EXCEPT ![t].read_set = @ \cup {a}]
       IN  IF tr[t].is_abort
           THEN LoadNone(t, ZeroStripe) /\ UNCHANGED tr
           ELSE IF ~Aligned(a)
           THEN Panics(t, "load") /\ UNCHANGED <<tr, loc>>
           ELSE IF a \in DOMAIN tr[t].write_set
           THEN LoadSome(t, tr[t].write_set[a], "wset") /\ tr' = ins
           ELSE IF ~InRange(a)
           THEN Panics(t, "load") /\ tr' = ins /\ UNCHANGED loc
           ELSE IF ~test_not_modify(a, tr[t].read_ver)
           THEN LoadNone(t, ZeroStripe) /\ tr' = [ins EXCEPT ![t].is_abort = TRUE]
           ELSE /\ pc' = [pc EXCEPT ![t] = "load_copy"]
                /\ loc' = [loc EXCEPT ![t] = [@ EXCEPT !.cur = a, !.idx = 0,
                                                       !.buf = ZeroStripe]]
                /\ tr' = ins
                /\ UNCHANGED <<after, gh>>
    /\ UNCHANGED <<shared, prog, call, attempts, result, hist, returned, owner>>
    /\ Alone(t)

\* One iteration of the copy loop of load: *dst = *src.
CopyByte(t) ==
    /\ loc' = [loc EXCEPT ![t] =
                  [@ EXCEPT !.buf = [@ EXCEPT ![loc[t].idx + 1] =
                                         mem[loc[t].cur + loc[t].idx]],
                            !.idx = @ + 1]]
    /\ pc' = [pc EXCEPT ![t] = IF loc[t].idx + 1 = STRIPE_SIZE
                               THEN "load_post" ELSE "load_copy"]

LoadCopy(t) ==
    /\ pc[t] = "load_copy"
    /\ CurKind(t) = "w"
    /\ CopyByte(t)
    /\ UNCHANGED <<shared, prog, call, attempts, after, result, tr, hist,
                   returned, gh, owner>>
    /\ Alone(t)

\* WriteTrans::load without the post validation.
LoadPostUnchecked(t) ==
    /\ pc[t] = "load_post"
    /\ CurKind(t) = "w"
    /\ LoadSome(t, loc[t].buf, "mem")
    /\ UNCHANGED <<shared, prog, call, attempts, result, tr, hist, returned, owner>>
    /\ Alone(t)

\* The post validation of WriteTrans::load and its return.
LoadPost(t) ==
    /\ pc[t] = "load_post"
    /\ CurKind(t) = "w"
    /\ IF ~test_not_modify(loc[t].cur, tr[t].read_ver)
       THEN LoadNone(t, loc[t].buf) /\ tr' = [tr EXCEPT ![t].is_abort = TRUE]
       ELSE LoadSome(t, loc[t].buf, "mem") /\ UNCHANGED tr
    /\ UNCHANGED <<shared, prog, call, attempts, result, hist, returned, owner>>
    /\ Alone(t)

\* WriteTrans::store
Store(t) ==
    /\ pc[t] = "body"
    /\ CurKind(t) = "w"
    /\ CurIns(t).op \in {"store", "store_inc", "store_set0"}
    /\ LET a == CurIns(t).addr IN
       IF ~Aligned(a)
       THEN Panics(t, "store") /\ UNCHANGED <<tr, loc>>
       ELSE /\ tr' = [tr EXCEPT ![t].write_set = write_set_insert(@, a, StoreVal(t))]
            /\ loc' = [loc EXCEPT ![t].bpc = NextStmt(t, loc[t].regs, @ + 1)]
            /\ gh' = [gh EXCEPT ![t] =
                         [@ EXCEPT !.lastop = OpRec(t, "store", "unit", StoreVal(t), "-"),
                                   !.stored = (a :> StoreVal(t)) @@ @]]
            /\ UNCHANGED <<pc, after>>
    /\ UNCHANGED <<shared, prog, call, attempts, result, hist, returned, owner>>
    /\ Alone(t)

\* The body has returned: through a "ret" statement, or through the
\* `return Retry` of the load! macro.
AtReturn(t) ==
    IF pc[t] = "ret" THEN TRUE ELSE pc[t] = "body" /\ CurIns(t).op = "ret"

BodyResult(t) == IF pc[t] = "ret" THEN "Retry" ELSE CurIns(t).arg

\* The history's record of a write transaction that commits with version v.
WriteRec(t, v) ==
    [id |-> CurId(t), kind |-> "w", key |-> 2 * v, rv |-> tr[t].read_ver,
     reads |-> gh[t].readlog, writes |-> tr[t].write_set,
     before |-> gh[t].before]

\* The history's record of a read transaction that returns Some.
ReadRec(t) ==
    [id |-> CurId(t), kind |-> "r", key |-> 2 * tr[t].read_ver + 1,
     rv |-> tr[t].read_ver, reads |-> gh[t].readlog, writes |-> EmptyMap,
     before |-> gh[t].before]

\* `continue`: the transaction is dropped and the loop runs again.
Continue(t) ==
    /\ pc' = [pc EXCEPT ![t] = "drop"]
    /\ after' = [after EXCEPT ![t] = "retry"]

\* `return None`
ReturnNone(t) ==
    /\ pc' = [pc EXCEPT ![t] = "drop"]
    /\ after' = [after EXCEPT ![t] = "none"]

\* A driver that loops on every Retry.
retry_always_loops(t) == Continue(t)

\* A driver that runs the loop again on Abort.
abort_loops(t) == Continue(t)

\* What write_transaction does with STMResult::Abort.
write_abort(t) == ReturnNone(t)

\* What write_transaction does with STMResult::Retry.
write_retry(t) == IF tr[t].is_abort THEN Continue(t) ELSE ReturnNone(t)

\* The match on f(&mut tr) in write_transaction.
BodyReturn(t) ==
    /\ AtReturn(t)
    /\ CurKind(t) = "w"
    /\ gh' = [gh EXCEPT ![t] = [@ EXCEPT !.lastret = BodyResult(t),
                                        !.lastabort = tr[t].is_abort]]
    /\ CASE BodyResult(t) = "Abort" ->
              write_abort(t) /\ UNCHANGED loc
         [] BodyResult(t) = "Retry" -> write_retry(t) /\ UNCHANGED loc
         [] BodyResult(t) = "Ok" ->
              IF tr[t].is_abort
              THEN Continue(t) /\ UNCHANGED loc
              ELSE /\ pc' = [pc EXCEPT ![t] =
                                IF DOMAIN tr[t].write_set = {}
                                THEN "inc" ELSE "lock"]
                   /\ loc' = [loc EXCEPT ![t].todo = DOMAIN tr[t].write_set]
                   /\ UNCHANGED after
    /\ UNCHANGED <<shared, prog, call, attempts, result, tr, hist, returned,
                   owner>>
    /\ Alone(t)

\* A lock_write_set that waits for the stripe's lock.
lock_waits(t) == FALSE

\* lock_addr returned false: lock_write_set returns false and the driver
\* runs the loop again.
lock_failed(t) == Continue(t)

\* One iteration of the loop of lock_write_set, with Memory::lock_addr.
\* The HashMap's iteration order is not specified: any address left.
LockWriteSet(t) ==
    /\ pc[t] = "lock"
    /\ \E a \in loc[t].todo :
         IF StripeIdx(a) \notin DOMAIN lock_ver
         THEN /\ Panics(t, "lock")
              /\ UNCHANGED <<shared, tr, loc, owner>>
         ELSE IF lock_addr_ok(a)
         THEN /\ lock_ver' = [lock_ver EXCEPT ![StripeIdx(a)] = lock_addr_word(@)]
              /\ owner' = [owner EXCEPT ![StripeIdx(a)] = t]
              /\ tr' = [tr EXCEPT ![t].locked = Append(@, a)]
              /\ loc' = [loc EXCEPT ![t].todo = @ \ {a}]
              /\ pc' = [pc EXCEPT ![t] = IF loc[t].todo = {a} THEN "inc" ELSE "lock"]
              /\ gh' = [gh EXCEPT ![t].aLock = @ + 1]
              /\ UNCHANGED <<mem, global_clock, after>>
         ELSE /\ lock_failed(t)
              /\ UNCHANGED <<shared, tr, loc, gh, owner>>
    /\ UNCHANGED <<prog, call, attempts, result, hist, returned>>
    /\ Alone(t)

\* The transaction goes on to commit(ver): the history records it.
ToCommit(t, v) ==
    /\ hist' = hist \cup {WriteRec(t, v)}
    /\ IF DOMAIN tr[t].write_set = {}
       THEN /\ pc' = [pc EXCEPT ![t] = "drop"]
            /\ after' = [after EXCEPT ![t] = "some"]
            /\ loc' = [loc EXCEPT ![t] = [@ EXCEPT !.ver = v, !.todo = {}]]
       ELSE /\ pc' = [pc EXCEPT ![t] = "commit_write"]
            /\ loc' = [loc EXCEPT ![t] = [@ EXCEPT !.ver = v, !.idx = 0,
                                                   !.todo = DOMAIN tr[t].write_set]]
            /\ UNCHANGED after

\* A step 5 that never calls validate_read_set.
never_validates(v, rv) == FALSE

\* A fast path that is also taken when one other increment came between.
validates_late(v, rv) == v > rv + 2

\* Whether step 5 of write_transaction calls validate_read_set.
needs_validation(v, rv) == v # rv + 1

\* A fetch_add that adds nothing.
inc_global_clock_lost(c) == c

\* Memory::inc_global_clock: the value fetch_add(1) leaves in the clock
inc_global_clock(c) == c + 1

\* Step 4 of write_transaction (Memory::inc_global_clock) and the first
\* operand of the condition of step 5.
IncClock(t) ==
    /\ pc[t] = "inc"
    /\ global_clock' = inc_global_clock(global_clock)
    /\ gh' = [gh EXCEPT ![t] = [@ EXCEPT !.aClock = @ + 1, !.cClock = @ + 1]]
    /\ LET v == 1 + global_clock IN
       IF needs_validation(v, tr[t].read_ver) /\ tr[t].read_set # {}
       THEN /\ pc' = [pc EXCEPT ![t] = "validate"]
            /\ loc' = [loc EXCEPT ![t] = [@ EXCEPT !.ver = v,
                                                   !.todo = tr[t].read_set]]
            /\ UNCHANGED <<after, hist>>
       ELSE ToCommit(t, v)
    /\ UNCHANGED <<mem, lock_ver, prog, call, attempts, result, tr, returned,
                   owner>>
    /\ Alone(t)

\* validate_read_set that accepts every address.
read_valid_always(t, a) == TRUE

\* The test validate_read_set makes of one address of the read set.
read_valid(t, a) ==
    IF a \in DOMAIN tr[t].write_set
    THEN get_addr_ver(a) <= tr[t].read_ver
    ELSE test_not_modify(a, tr[t].read_ver)

\* One iteration of the loop of validate_read_set.
Validate(t) ==
    /\ pc[t] = "validate"
    /\ \E a \in loc[t].todo :
         IF StripeIdx(a) \notin DOMAIN lock_ver
         THEN Panics(t, "validate") /\ UNCHANGED <<loc, hist>>
         ELSE IF ~read_valid(t, a)
         THEN /\ Continue(t)
              /\ gh' = [gh EXCEPT ![t].vfail = @ + 1]
              /\ UNCHANGED <<loc, hist>>
         ELSE IF loc[t].todo = {a}
         THEN ToCommit(t, loc[t].ver) /\ UNCHANGED gh
         ELSE /\ loc' = [loc EXCEPT ![t].todo = @ \ {a}]
              /\ UNCHANGED <<pc, after, gh, hist>>
    /\ UNCHANGED <<shared, prog, call, attempts, result, tr, returned, owner>>
    /\ Alone(t)

\* A copy loop that pairs byte i of the buffer with byte i + 1 of the value.
commit_byte_shifted(t, a, i) ==
    tr[t].write_set[a][((i + 1) % STRIPE_SIZE) + 1]

\* *dst = *src in the first loop of commit: byte i of the value of a
commit_byte(t, a, i) == tr[t].write_set[a][i + 1]

\* A second loop that runs over every stripe of the buffer.
commit_all_addrs(t) == StripeAddrs

\* The addresses the second loop of commit runs over: self.write_set.iter()
commit_addrs(t) == DOMAIN tr[t].write_set

\* The first loop of commit: one byte of one stripe of the write set.
CommitWrite(t) ==
    /\ pc[t] = "commit_write"
    /\ \E a \in (IF loc[t].idx = 0 THEN loc[t].todo ELSE {loc[t].cur}) :
         /\ mem' = [mem EXCEPT ![a + loc[t].idx] = commit_byte(t, a, loc[t].idx)]
         /\ IF loc[t].idx + 1 < STRIPE_SIZE
            THEN /\ loc' = [loc EXCEPT ![t] = [@ EXCEPT !.cur = a, !.idx = @ + 1]]
                 /\ UNCHANGED pc
            ELSE IF loc[t].todo = {a}
            THEN /\ loc' = [loc EXCEPT ![t] =
                               [@ EXCEPT !.cur = 0, !.idx = 0,
                                         !.todo = commit_addrs(t)]]
                 /\ pc' = [pc EXCEPT ![t] = "commit_publish"]
            ELSE /\ loc' = [loc EXCEPT ![t] =
                               [@ EXCEPT !.cur = 0, !.idx = 0, !.todo = @ \ {a}]]
                 /\ UNCHANGED pc
    /\ gh' = [gh EXCEPT ![t] = [@ EXCEPT !.aBytes = @ + 1, !.cBytes = @ + 1]]
    /\ UNCHANGED <<lock_ver, global_clock, prog, call, attempts, after, result,
                   tr, hist, returned, owner>>
    /\ Alone(t)

\* The body of u's attempt is running or has just returned: the attempt
\* has not begun to lock its write set.
BeforeLocking(u) == pc[u] \in {"body", "load_copy", "load_post", "ret"}

\* The stripes u's attempt has loaded from memory.
LoadedAddrs(u) == {x[1] : x \in gh[u].readlog}

\* The second loop of commit: lock_ver[idx].store(ver) for one address;
\* after the last one, self.locked.clear() and commit returns.
CommitPublish(t) ==
    /\ pc[t] = "commit_publish"
    /\ \E a \in loc[t].todo :
         /\ lock_ver' = [lock_ver EXCEPT ![StripeIdx(a)] =
                             publish_word(@, loc[t].ver)]
         /\ owner' = [owner EXCEPT ![StripeIdx(a)] = NoThread]
         /\ loc' = [loc EXCEPT ![t].todo = @ \ {a}]
         /\ IF loc[t].todo = {a}
            THEN /\ tr' = [tr EXCEPT ![t].locked = <<>>]
                 /\ pc' = [pc EXCEPT ![t] = "drop"]
                 /\ after' = [after EXCEPT ![t] = "some"]
            ELSE UNCHANGED <<tr, pc, after>>
         /\ gh' = [u \in Threads |->
                     IF u = t
                     THEN [gh[t] EXCEPT !.aPub = @ + 1, !.cPub = @ + 1]
                     ELSE IF BeforeLocking(u) /\ a \in LoadedAddrs(u)
                     THEN [gh[u] EXCEPT !.stale = @ \cup {a}]
                     ELSE gh[u]]
    /\ UNCHANGED <<mem, global_clock, prog, call, attempts, result, hist,
                   returned>>
    /\ Alone(t)

\* A drop that leaves the lock words as they are.
drop_keeps_lock(t, a) == UNCHANGED <<lock_ver, owner>>

\* Drop for WriteTrans: one iteration, Memory::unlock_addr.
drop_unlock(t, a) ==
    /\ lock_ver' = [lock_ver EXCEPT ![StripeIdx(a)] = unlock_addr_word(@)]
    /\ owner' = [owner EXCEPT ![StripeIdx(a)] = NoThread]

DropUnlock(t) ==
    /\ pc[t] = "drop"
    /\ tr[t].locked # <<>>
    /\ drop_unlock(t, Head(tr[t].locked))
    /\ tr' = [tr EXCEPT ![t].locked = Tail(@)]
    /\ gh' = [gh EXCEPT ![t].aLock = @ + 1]
    /\ UNCHANGED <<mem, global_clock, prog, pc, call, attempts, after, result,
                   loc, hist, returned>>
    /\ Alone(t)

\* The transaction is gone: the loop runs again, the call returns, or the
\* panic goes on unwinding the thread.
EndAttempt(t) ==
    /\ pc[t] = "drop"
    /\ tr[t].locked = <<>>
    /\ tr' = [tr EXCEPT ![t] = NoTrans]
    /\ loc' = [loc EXCEPT ![t] = NoLoc]
    /\ after' = [after EXCEPT ![t] = "-"]
    /\ IF after[t] = "retry"
       THEN /\ pc' = [pc EXCEPT ![t] = "new"]
            /\ gh' = [gh EXCEPT ![t].loops = @ \cup {gh[t].lastret}]
            /\ UNCHANGED <<result, returned>>
       ELSE IF after[t] = "panic"
       THEN /\ pc' = [pc EXCEPT ![t] = "panicked"]
            /\ UNCHANGED <<result, returned, gh>>
       ELSE /\ pc' = [pc EXCEPT ![t] = "idle"]
            /\ UNCHANGED gh
            /\ result' = [result EXCEPT ![t] =
                   Append(@, [ret |-> IF after[t] = "some" THEN "Some" ELSE "None",
                              val |-> IF after[t] = "some" THEN CurIns(t).reg ELSE 0,
                              body |-> gh[t].lastret,
                              aborted |-> gh[t].lastabort,
                              loops |-> gh[t].loops])]
            /\ returned' = returned \cup {CurId(t)}
    /\ UNCHANGED <<shared, prog, call, attempts, hist, owner>>
    /\ Alone(t)

----------------------------------------------------------------------------
(* The read transaction *)

\* ReadTrans::load up to the pre validation.
RLoadEnter(t) ==
    /\ pc[t] = "body"
    /\ CurKind(t) = "r"
    /\ CurIns(t).op \in {"load", "rawload"}
    /\ LET a == CurIns(t).addr IN
       IF tr[t].is_abort
       THEN LoadNone(t, ZeroStripe) /\ UNCHANGED tr
       ELSE IF ~Aligned(a) \/ ~InRange(a)
       THEN Panics(t, "load") /\ UNCHANGED <<tr, loc>>
       ELSE IF ~test_not_modify(a, tr[t].read_ver)
       THEN LoadNone(t, ZeroStripe) /\ tr' = [tr EXCEPT ![t].is_abort = TRUE]
       ELSE /\ pc' = [pc EXCEPT ![t] = "load_copy"]
            /\ loc' = [loc EXCEPT ![t] = [@ EXCEPT !.cur = a, !.idx = 0,
                                                   !.buf = ZeroStripe]]
            /\ UNCHANGED <<tr, after, gh>>
    /\ UNCHANGED <<shared, prog, call, attempts, result, hist, returned, owner>>
    /\ Alone(t)

\* One iteration of the copy loop of ReadTrans::load.
RLoadCopy(t) ==
    /\ pc[t] = "load_copy"
    /\ CurKind(t) = "r"
    /\ CopyByte(t)
    /\ UNCHANGED <<shared, prog, call, attempts, after, result, tr, hist,
                   returned, gh, owner>>
    /\ Alone(t)

\* The post validation of ReadTrans::load and its return.
RLoadPost(t) ==
    /\ pc[t] = "load_post"
    /\ CurKind(t) = "r"
    /\ IF ~test_not_modify(loc[t].cur, tr[t].read_ver)
       THEN LoadNone(t, loc[t].buf) /\ tr' = [tr EXCEPT ![t].is_abort = TRUE]
       ELSE LoadSome(t, loc[t].buf, "mem") /\ UNCHANGED tr
    /\ UNCHANGED <<shared, prog, call, attempts, result, hist, returned, owner>>
    /\ Alone(t)

\* What read_transaction does with STMResult::Retry.
read_retry(t) == IF tr[t].is_abort THEN Continue(t) ELSE ReturnNone(t)

\* The match on f(&mut tr) in read_transaction.
RBodyReturn(t) ==
    /\ AtReturn(t)
    /\ CurKind(t) = "r"
    /\ gh' = [gh EXCEPT ![t] = [@ EXCEPT !.lastret = BodyResult(t),
                                        !.lastabort = tr[t].is_abort]]
    /\ CASE BodyResult(t) = "Abort" -> ReturnNone(t) /\ UNCHANGED hist
         [] BodyResult(t) = "Retry" -> read_retry(t) /\ UNCHANGED hist
         [] BodyResult(t) = "Ok" ->
              IF tr[t].is_abort
              THEN Continue(t) /\ UNCHANGED hist
              ELSE /\ pc' = [pc EXCEPT ![t] = "drop"]
                   /\ after' = [after EXCEPT ![t] = "some"]
                   /\ hist' = hist \cup {ReadRec(t)}
    /\ UNCHANGED <<shared, prog, call, attempts, result, tr, loc, returned,
                   owner>>
    /\ Alone(t)

----------------------------------------------------------------------------
(* Specifications *)

WriteStep(t) ==
    \/ Call(t)
    \/ NewTrans(t)
    \/ LoadEnter(t)
    \/ LoadCopy(t)
    \/ LoadPost(t)
    \/ Store(t)
    \/ BodyReturn(t)
    \/ LockWriteSet(t)
    \/ IncClock(t)
    \/ Validate(t)
    \/ CommitWrite(t)
    \/ CommitPublish(t)
    \/ DropUnlock(t)
    \/ EndAttempt(t)

ReadStep(t) ==
    \/ RLoadEnter(t)
    \/ RLoadCopy(t)
    \/ RLoadPost(t)
    \/ RBodyReturn(t)

Next == \E t \in Threads : WriteStep(t) \/ ReadStep(t)

\* The threads make calls of write_transaction only.
NextW == \E t \in Threads : WriteStep(t)

\* Stripes the bodies store.
StripeA == Fill(1)
StripeB == <<2, 3, 4, 5, 6, 7, 8, 9>>
StripeC == Fill(255)

\* A workload: the calls thread 0 makes, then the calls thread 1 makes.
\* Two writers with crossing read and write sets, then a reader.
W_Cross ==
    << <<WCall(<<ILoad(0, 1), IStore(8, StripeA), IStoreInc(0, 1), IRet("Ok")>>)>>,
       <<WCall(<<ILoad(8, 1), IStore(0, StripeB), IRet("Ok")>>),
         RCall(<<ILoad(0, 1), ILoad(8, 2), IRet("Ok")>>)>> >>

\* A body that gives up or asks for a retry on what it loaded, against a
\* writer of the stripe it looks at.
W_Signal ==
    << <<WCall(<<ILoad(0, 1), IStore(8, StripeA), IfZero(1, 5), IRet("Ok"),
                 IRet("Abort")>>),
         RCall(<<ILoad(8, 1), IfZero(1, 4), IRet("Retry"), IRet("Ok")>>)>>,
       <<WCall(<<IStore(0, StripeB), IRet("Ok")>>),
         WCall(<<ILoad(8, 1), IfZero(1, 4), IRet("Retry"), IRet("Abort")>>)>> >>

\* Stores and direct loads of the same stripe, against a writer of it; then
\* a stripe written and read back.
W_Own ==
    << <<WCall(<<IRawLoad(0, 1), IStore(0, StripeA), IStore(0, StripeB),
                 IRawLoad(0, 2), IRet("Ok")>>)>>,
       <<WCall(<<IStore(0, StripeC), IRet("Ok")>>),
         RCall(<<ILoad(0, 1), IRet("Ok")>>)>> >>

\* A writer of both stripes that reads one back, against a writer that
\* reads one stripe and writes the other.
W_Back ==
    << <<WCall(<<IStore(0, StripeA), IStore(8, StripeA), IRet("Ok")>>),
         RCall(<<ILoad(0, 1), IRet("Ok")>>)>>,
       <<WCall(<<ILoad(8, 1), IStore(0, StripeB), IRet("Ok")>>)>> >>

\* Addresses that are not stripe addresses of the buffer.
W_Addr ==
    << <<WCall(<<IRawLoad(0, 1), IRawLoad(OddAddr, 2), IStore(OutAddr, StripeA),
                 IRawLoad(OutAddr, 2), IStore(0, StripeA), IRet("Ok")>>)>>,
       <<WCall(<<IStore(0, StripeB), IRet("Ok")>>),
         WCall(<<ILoad(OddAddr, 1), IRet("Ok")>>)>> >>

\* The body that loads address 0 as a little-endian u64, adds 1 and stores
\* it back.
IncBody == <<ILoad(0, 1), IStoreInc(0, 1), IRetOk(1)>>

\* The closures of philosopher n in src/src/main.rs: the pickup of the
\* chopsticks, which returns true (1) or false (0), and their release.
Left(n) == STRIPE_SIZE * n
Right(n) == STRIPE_SIZE * ((n + 1) % NUM_PHILOSOPHERS)

Pickup(n) ==
    <<ILoad(Left(n), 1), ILoad(Right(n), 2), IfZero(1, 8), IfZero(2, 8),
      IStoreSet0(Left(n), 1, 1), IStoreSet0(Right(n), 2, 1), IRetOk(1), IRetOk(0)>>

Release(n) ==
    <<ILoad(Left(n), 1), ILoad(Right(n), 2), IStoreSet0(Left(n), 1, 0),
      IStoreSet0(Right(n), 2, 0), IRetOk(0)>>

\* One eat-cycle of philosopher n: the pickup loop, then the release.
Cycle(n) ==
    [k \in 1 .. MaxPickups |-> WCallWhileNot(Pickup(n))] \o <<WCall(Release(n))>>

\* philosopher(stm, n) for every thread main spawns.
W_Phil == [i \in 1 .. NUM_PHILOSOPHERS |-> Cycle(i - 1)]

\* Both threads increment the counter twice.
W_Counter ==
    << <<WCall(IncBody), WCall(IncBody)>>, <<WCall(IncBody), WCall(IncBody)>> >>


----------------------------------------------------------------------------
(* The history read as a serial execution *)

\* The transaction object of t exists.
Live(t) == pc[t] \notin {"idle", "new", "panicked"}

\* t is between the start of lock_write_set and the end of the drop.
InCommit(t) ==
    pc[t] \in {"lock", "inc", "validate", "commit_write", "commit_publish", "drop"}

\* The committed write transactions that wrote stripe a.
Writers(a) == {r \in hist : r.kind = "w" /\ a \in DOMAIN r.writes}

\* The committed transactions are ordered by key: a writer's key is twice
\* its commit version, a reader's is twice its read version plus one.
\* The contents of stripe a after the writers with a key below k have run
\* one at a time, in the order of their keys, on a zeroed buffer.
SerialVal(a, k) ==
    LET ws == {r \in Writers(a) : r.key < k} IN
    IF ws = {} THEN ZeroStripe
    ELSE (CHOOSE r \in ws : \A q \in ws : q.key <= r.key).writes[a]

\* A key above every key of the history.
TopKey == 2 * global_clock + 2

Locked(a) == lock_ver[StripeIdx(a)].bit63 = 1

\* C1: the committed transactions, ordered by key, form a serial execution:
\* the order is total on writers and respects real-time precedence, every
\* value a committed transaction loaded from memory is the one the serial
\* execution holds at its place, and every stripe no committing writer
\* holds locked has the contents the serial execution ends with.
C1_Linearizable ==
    /\ \A r1 \in hist : \A r2 \in hist :
         /\ (r1.kind = "w" /\ r2.kind = "w" /\ r1.key = r2.key) => r1 = r2
         /\ r1.id \in r2.before =>
              \/ r1.key < r2.key
              \/ r1.kind = "r" /\ r2.kind = "r" /\ r1.key = r2.key
    /\ \A r \in hist : \A x \in r.reads : x[2] = SerialVal(x[1], r.key)
    /\ \A a \in StripeAddrs :
         ~Locked(a) => StripeAt(mem, a) = SerialVal(a, TopKey)

\* Two committed writers and a committed reader that saw the later one,
\* after the other thread's call had returned.
C1_Witness ==
    /\ Cardinality({r \in hist : r.kind = "w"}) >= 2
    /\ \E r \in hist : r.reads # {} /\ r.before # {}
    /\ \E r \in hist : \E x \in r.reads : x[2] # ZeroStripe
    /\ \A t \in Threads : pc[t] = "idle" /\ call[t] = Len(prog[t])

\* C2: every value a live transaction loaded from memory is the value of
\* the committed writer of that stripe with the greatest version <= the
\* transaction's read version (zero if there is none), whether or not the
\* transaction goes on to commit.
C2_SnapshotRead ==
    \A t \in Threads :
        Live(t) =>
            \A x \in gh[t].readlog :
                x[2] = SerialVal(x[1], 2 * tr[t].read_ver + 1)

\* A transaction that loaded a committed non-zero stripe and is now marked
\* aborted.
C2_Witness ==
    \E t \in Threads :
        /\ Live(t)
        /\ tr[t].is_abort
        /\ \E x \in gh[t].readlog : x[2] # ZeroStripe

\* C3: no torn stripes: a stripe load returned from memory is the stripe
\* one committed writer stored there, whole, or the initial zero stripe.
C3_NoTornStripe ==
    \A t \in Threads :
        \A x \in gh[t].readlog :
            \/ x[2] = ZeroStripe
            \/ \E r \in Writers(x[1]) : x[2] = r.writes[x[1]]

\* The post validation has made a load return None whose copy loop had
\* filled the buffer partly with bytes of a committed writer and partly
\* with bytes that were in the stripe before.
C3_Witness ==
    \E t \in Threads :
        /\ gh[t].lastop.op = "load"
        /\ gh[t].lastop.out = "none"
        /\ gh[t].lastop.val # ZeroStripe
        /\ Writers(gh[t].lastop.addr) # {}
        /\ \A r \in Writers(gh[t].lastop.addr) :
              /\ gh[t].lastop.val # r.writes[gh[t].lastop.addr]
              /\ \E i \in 1 .. STRIPE_SIZE :
                    gh[t].lastop.val[i] = r.writes[gh[t].lastop.addr][i]

\* C5: bit 63 of a lock word is set only on behalf of an attempt that is
\* between lock_write_set and the end of its drop and has the stripe in its
\* locked set; when no attempt is there, every lock bit is clear.
C5_LockRelease ==
    /\ \A a \in StripeAddrs :
         Locked(a) =>
            /\ owner[StripeIdx(a)] \in Threads
            /\ InCommit(owner[StripeIdx(a)])
            /\ \E k \in DOMAIN tr[owner[StripeIdx(a)]].locked :
                  tr[owner[StripeIdx(a)]].locked[k] = a
    /\ (\A t \in Threads : ~InCommit(t)) => \A a \in StripeAddrs : ~Locked(a)

\* An attempt that took a lock and gave it back is over, and the loop is
\* about to run again.
C5_Witness ==
    \E t \in Threads :
        /\ pc[t] = "new"
        /\ gh[t].aLock >= 2
        /\ \A a \in StripeAddrs : ~Locked(a)

----------------------------------------------------------------------------
(* The counter of scenario S2 *)

AllReturned == \A t \in Threads : pc[t] = "idle" /\ call[t] = Len(prog[t])

\* The calls that returned Some, as <<thread, index>>.
ReturnedSome ==
    UNION {{<<t, i>> : i \in {j \in DOMAIN result[t] : result[t][j].ret = "Some"}} :
             t \in Threads}

IsCounterRun ==
    \A t \in Threads : \A i \in DOMAIN prog[t] : prog[t][i] = WCall(IncBody)

\* C4: no update is lost: when the threads run only increments of the
\* counter at address 0 and every call has returned, the counter equals
\* the number of calls that returned Some.
C4_NoLostUpdate ==
    (IsCounterRun /\ AllReturned) =>
        StripeAt(mem, 0) = ToLe(Cardinality(ReturnedSome))

\* All four increments returned Some, one of them after a retry.
C4_Witness ==
    /\ IsCounterRun
    /\ AllReturned
    /\ Cardinality(ReturnedSome) = 4
    /\ StripeAt(mem, 0) = ToLe(4)
    /\ \E t \in Threads : \E i \in DOMAIN result[t] : result[t][i].loops # {}

----------------------------------------------------------------------------
(* The driver's answer to the body's result *)

OwnsNone(t) == \A i \in DOMAIN owner : owner[i] # t

\* C7 as stated: a call whose body returned Abort returns None and has
\* changed no byte, no lock word and not the global clock.
C7_AbortChangesNothing ==
    \A t \in Threads :
        (pc[t] = "drop" /\ gh[t].lastret = "Abort") =>
            /\ after[t] = "none"
            /\ gh[t].cBytes = 0
            /\ gh[t].cPub = 0
            /\ OwnsNone(t)
            /\ gh[t].cClock = 0

\* C7, amended: a call whose body returned Abort returns None; the call
\* has written no byte and published no version and holds no lock, and the
\* attempt whose body returned Abort has touched neither a lock word nor
\* the global clock (earlier attempts of the call may have advanced it).
C7_AbortAttemptChangesNothing ==
    \A t \in Threads :
        (pc[t] = "drop" /\ gh[t].lastret = "Abort") =>
            /\ after[t] = "none"
            /\ gh[t].cBytes = 0
            /\ gh[t].cPub = 0
            /\ OwnsNone(t)
            /\ gh[t].aClock = 0
            /\ gh[t].aLock = 0

\* A body that returns Abort after a store, in a call whose earlier attempt
\* failed its validation.
C7_Witness ==
    \E t \in Threads :
        /\ pc[t] = "drop"
        /\ gh[t].lastret = "Abort"
        /\ gh[t].bodies = 2
        /\ gh[t].cClock = 1
        /\ DOMAIN tr[t].write_set # {}

----------------------------------------------------------------------------
(* Loads and stores of one transaction *)

\* C8 as stated: a load of an address the transaction has stored to
\* returns the value of the latest such store, whatever else has happened.
C8_ReadYourWrites ==
    \A t \in Threads :
        (Live(t) /\ gh[t].lastop.op = "load"
                 /\ gh[t].lastop.addr \in DOMAIN gh[t].stored) =>
            /\ gh[t].lastop.out = "some"
            /\ gh[t].lastop.val = gh[t].stored[gh[t].lastop.addr]

\* C8, amended: such a load returns the value of the latest store if the
\* transaction is not marked aborted, and None if it is.
C8_ReadYourWritesUnlessAborted ==
    \A t \in Threads :
        (Live(t) /\ gh[t].lastop.op = "load"
                 /\ gh[t].lastop.addr \in DOMAIN gh[t].stored) =>
            IF gh[t].lastop.aborted
            THEN gh[t].lastop.out = "none"
            ELSE /\ gh[t].lastop.out = "some"
                 /\ gh[t].lastop.val = gh[t].stored[gh[t].lastop.addr]

\* A load returned the second of two stores to a stripe while another
\* transaction held the stripe's lock.
C8_Witness ==
    \E t \in Threads :
        /\ Live(t)
        /\ gh[t].lastop.op = "load"
        /\ gh[t].lastop.out = "some"
        /\ gh[t].lastop.val = StripeB
        /\ gh[t].lastop.addr \in DOMAIN gh[t].stored
        /\ Locked(gh[t].lastop.addr)
        /\ owner[StripeIdx(gh[t].lastop.addr)] # t

\* Every committed writer of stripe a had returned when t's call started.
WrittenBefore(t, a) == \A r \in Writers(a) : r.id \in gh[t].before

\* The attempt of u cannot commit: a stripe of its read set has a version
\* above its read version.
Doomed(u) == \E x \in tr[u].read_set : get_addr_ver(x) > tr[u].read_ver

\* No attempt that may still commit holds the lock of stripe a.
NoWriterComing(a) ==
    \A u \in Threads : owner[StripeIdx(a)] = u => Doomed(u)

\* C9 as stated: a load of a stripe whose committed writers all returned
\* before the call started, and whose lock no attempt that may still commit
\* holds, obtains the last written value on the call's first attempt.
C9_RoundTripFirstAttempt ==
    \A t \in Threads :
        (Live(t) /\ gh[t].bodies = 1 /\ gh[t].lastop.op = "load"
                 /\ ValidAddr(gh[t].lastop.addr)
                 /\ gh[t].lastop.addr \notin DOMAIN gh[t].stored
                 /\ Writers(gh[t].lastop.addr) # {}
                 /\ WrittenBefore(t, gh[t].lastop.addr)
                 /\ NoWriterComing(gh[t].lastop.addr)) =>
            /\ gh[t].lastop.out = "some"
            /\ gh[t].lastop.val = SerialVal(gh[t].lastop.addr, TopKey)

\* C9, amended: such a load, in whichever attempt, obtains the last written
\* value (zero for a stripe never written) if it returns a value at all.
C9_RoundTrip ==
    \A t \in Threads :
        (Live(t) /\ gh[t].lastop.op = "load"
                 /\ gh[t].lastop.out = "some"
                 /\ gh[t].lastop.src = "mem"
                 /\ WrittenBefore(t, gh[t].lastop.addr)) =>
            gh[t].lastop.val = SerialVal(gh[t].lastop.addr, TopKey)

\* A transaction started after the writer of StripeA returned has loaded
\* StripeA from memory.
C9_Witness ==
    \E t \in Threads :
        /\ Live(t)
        /\ gh[t].lastop.op = "load"
        /\ gh[t].lastop.out = "some"
        /\ gh[t].lastop.src = "mem"
        /\ gh[t].lastop.val = StripeA
        /\ Writers(gh[t].lastop.addr) # {}
        /\ WrittenBefore(t, gh[t].lastop.addr)

\* C10: a load or store of an address that is not a stripe address of the
\* buffer panics, and no such address is in a read set or a write set.
C10_RejectsInvalidAddr ==
    \A t \in Threads :
        /\ (gh[t].lastop.op \in {"load", "store"} /\ ~ValidAddr(gh[t].lastop.addr)) =>
              gh[t].lastop.out = "panic"
        /\ Live(t) =>
              \A a \in tr[t].read_set \cup DOMAIN tr[t].write_set : ValidAddr(a)

----------------------------------------------------------------------------
(* Progress *)

\* A call of t has not returned.
InCall(t) == pc[t] \notin {"idle", "panicked"}

\* The loop of t's driver would run again, beyond the attempts of the model.
CutShort(t) == pc[t] = "new" /\ attempts[t] >= MaxAttempts

\* The stripes in t's locked vector.
LockedSet(t) == {tr[t].locked[k] : k \in DOMAIN tr[t].locked}

\* C11: transactions never wait for a stripe lock: a thread whose call has
\* not returned can itself take a step, whatever locks the other threads
\* hold, so that while some call has not returned some thread can take a
\* step; an attempt whose lock acquisition failed goes to its drop and the
\* loop runs again, and once the drop is over it holds no lock.
C11_NeverBlocks ==
    /\ \A t \in Threads :
         (InCall(t) /\ ~CutShort(t)) => ENABLED (WriteStep(t) \/ ReadStep(t))
    /\ (\E t \in Threads : InCall(t) /\ ~CutShort(t)) => ENABLED Next
    /\ \A t \in Threads :
         /\ (pc[t] = "drop" /\ after[t] = "retry" /\ gh[t].lastret = "Ok"
                /\ ~gh[t].lastabort /\ gh[t].aClock = 0) =>
               \E a \in DOMAIN tr[t].write_set \ LockedSet(t) : TRUE
         /\ pc[t] = "new" => (OwnsNone(t) /\ tr[t].locked = <<>>)

\* The two philosophers have each locked their left chopstick and are about
\* to try the other's.
C11_Witness ==
    /\ \A t \in Threads :
         /\ pc[t] = "lock"
         /\ LockedSet(t) = {Left(t)}
         /\ loc[t].todo = {Right(t)}
         /\ owner[StripeIdx(Left(t))] = t
    /\ Left(0) # Left(1)

----------------------------------------------------------------------------
(* Conflicts *)

\* The body of t's attempt returned Ok on a transaction not marked aborted:
\* the driver went on to lock_write_set.
WentToLock(t) == gh[t].lastret = "Ok" /\ ~gh[t].lastabort

\* C12: a write attempt that loaded a stripe from memory which another
\* transaction published afterwards, before the attempt began to lock its
\* write set, does not commit: it is not in the history, it writes no byte
\* and publishes no version, and once the driver has gone on to the commit
\* protocol the attempt ends in `continue`, so that the body is run again;
\* when every call has returned, the buffer holds what the committed
\* writers leave in the order of their versions.
C12_StaleReadRetries ==
    /\ \A t \in Threads :
         (InCall(t) /\ CurKind(t) = "w" /\ gh[t].stale # {}) =>
            /\ pc[t] \notin {"commit_write", "commit_publish"}
            /\ gh[t].aBytes = 0
            /\ gh[t].aPub = 0
            /\ \A r \in hist : r.id # CurId(t)
            /\ (pc[t] = "drop" /\ WentToLock(t) /\ after[t] # "panic") =>
                  after[t] = "retry"
    /\ AllReturned =>
         \A a \in StripeAddrs : StripeAt(mem, a) = SerialVal(a, TopKey)

\* An attempt that loaded a stripe another transaction then published has
\* locked its write set, incremented the clock and failed its validation.
C12_Witness ==
    \E t \in Threads :
        /\ pc[t] = "drop"
        /\ CurKind(t) = "w"
        /\ gh[t].stale # {}
        /\ WentToLock(t)
        /\ gh[t].aClock = 1
        /\ after[t] = "retry"
        /\ DOMAIN tr[t].write_set # {}

\* Every address the body of t's call hands to load or store is a stripe
\* address of the buffer.
BodyValid(t) ==
    \A i \in DOMAIN CurCall(t).body :
        CurCall(t).body[i].op \in {"load", "rawload", "store", "store_inc",
                                   "store_set0"} =>
            ValidAddr(CurCall(t).body[i].addr)

\* C13: a write attempt that started when no lock bit was set, and during
\* which no other thread has taken a step, never has a load return None, is
\* never marked aborted and never ends in `continue`; if its body returns
\* Ok, it commits and write_transaction returns Some.
C13_ObstructionFree ==
    \A t \in Threads :
        (InCall(t) /\ pc[t] # "new" /\ solo[t] /\ CurKind(t) = "w"
                   /\ BodyValid(t)) =>
            /\ ~tr[t].is_abort
            /\ gh[t].lastop.out \notin {"none", "panic"}
            /\ after[t] \notin {"retry", "panic"}
            /\ (pc[t] = "drop" /\ gh[t].lastret = "Ok") =>
                  /\ after[t] = "some"
                  /\ \E r \in hist : r.id = CurId(t) /\ r.rv = tr[t].read_ver
                                       /\ r.key = 2 * (tr[t].read_ver + 1)

\* An attempt has run alone from its start to the end of its commit, while
\* the other thread stood still in the middle of a call; it had loaded a
\* stripe an earlier transaction wrote, and wrote a stripe itself.
C13_Witness ==
    \E t \in Threads :
        /\ solo[t]
        /\ pc[t] = "drop"
        /\ CurKind(t) = "w"
        /\ after[t] = "some"
        /\ tr[t].locked = <<>>
        /\ gh[t].aBytes >= STRIPE_SIZE
        /\ \E x \in gh[t].readlog : x[2] # ZeroStripe
        /\ \E u \in Threads \ {t} : pc[u] \in {"body", "load_copy", "load_post"}

----------------------------------------------------------------------------
(* The global clock and the lock words *)

\* The write transactions in the history.
Committed == {r \in hist : r.kind = "w"}

\* The attempts that are past their increment and in validate_read_set.
Validating == {t \in Threads : pc[t] = "validate"}

\* The attempts of threads 0 .. n that incremented the clock and then
\* failed their validation.
RECURSIVE FailedUpTo(_)
FailedUpTo(n) == IF n < 0 THEN 0 ELSE gh[n].vfail + FailedUpTo(n - 1)

FailedValidations == FailedUpTo(NUM_PHILOSOPHERS - 1)

\* The lock_addr calls of t's attempt that returned true (aLock counts them
\* and the unlock_addr calls of the drop).
LocksTaken(t) == (gh[t].aLock + Len(tr[t].locked)) \div 2

\* C14 as stated: the clock counts the write transactions that committed
\* or are past their increment, and an attempt that ends in `continue` has
\* not incremented it.
C14_OnlyCommitsIncrement ==
    /\ global_clock <= Cardinality(Committed) + Cardinality(Validating)
    /\ \A t \in Threads :
         (pc[t] = "drop" /\ after[t] = "retry") => gh[t].aClock = 0

\* C14, amended: the clock counts the write attempts that locked their
\* whole write set: those that committed, those in validate_read_set and
\* those that failed it.  An attempt increments it at most once; one that
\* ends in `continue` has incremented it if and only if it had locked its
\* whole write set, that is, it failed in validate_read_set and not before.
C14_LockedAttemptsIncrement ==
    /\ global_clock = Cardinality(Committed) + Cardinality(Validating)
                         + FailedValidations
    /\ \A t \in Threads :
         (InCall(t) /\ CurKind(t) = "w") =>
            /\ gh[t].aClock <= 1
            /\ (pc[t] = "drop" /\ after[t] = "retry") =>
                  (gh[t].aClock = 1 <=>
                     (WentToLock(t)
                        /\ LocksTaken(t) = Cardinality(DOMAIN tr[t].write_set)))

\* One write transaction has committed and one attempt has failed its
\* validation: the clock is 2, and every call has returned.
C14_Witness ==
    /\ AllReturned
    /\ Cardinality(Committed) = 1
    /\ FailedValidations = 1
    /\ global_clock = 2

\* The threads that have stripe a in their locked vector.
Lockers(a) == {t \in Threads : a \in LockedSet(t)}

\* C15 as stated: a stripe is in the locked vector of at most one
\* transaction, and only while its bit 63 is set.
C15_LockedSetsDisjoint ==
    \A a \in StripeAddrs :
        /\ Cardinality(Lockers(a)) <= 1
        /\ Lockers(a) # {} => Locked(a)

\* t's commit has stored the new version in a's lock word, and has not yet
\* cleared its locked vector.
Published(t, a) == pc[t] = "commit_publish" /\ a \notin loc[t].todo

\* The transactions that hold the lock of a: a is in their locked vector
\* and they have not published it.
Holders(a) == {t \in Lockers(a) : ~Published(t, a)}

\* C15, amended: at most one transaction holds the lock of a stripe; it is
\* the one that set bit 63, and bit 63 is set exactly while there is one.
\* A stripe is in a locked vector without being held only in the second
\* loop of commit, after the store of its new version, and its version is
\* then at least that one.
C15_OneHolder ==
    \A a \in StripeAddrs :
        /\ Cardinality(Holders(a)) <= 1
        /\ \A t \in Holders(a) : Locked(a) /\ owner[StripeIdx(a)] = t
        /\ Locked(a) => Holders(a) # {}
        /\ \A t \in Lockers(a) \ Holders(a) : get_addr_ver(a) >= loc[t].ver

\* A stripe one transaction has published and not yet dropped from its
\* locked vector is locked by another.
C15_Witness ==
    \E a \in StripeAddrs : \E t \in Lockers(a) : \E u \in Lockers(a) :
        /\ t # u
        /\ Published(t, a)
        /\ u \in Holders(a)

\* C16: no step lowers the version in bits 0-62 of a lock word; the
\* version a commit is about to store in a lock word is above the one the
\* word holds, and no lock word holds a version above the global clock.
C16_VersionMonotone ==
    /\ [][\A i \in DOMAIN lock_ver : lock_ver'[i].low >= lock_ver[i].low]_vars
    /\ [](\A t \in Threads :
            /\ pc[t] = "commit_publish" =>
                  \A a \in loc[t].todo : get_addr_ver(a) < loc[t].ver
            /\ \A i \in DOMAIN lock_ver : lock_ver[i].low <= global_clock)

\* A writer is about to publish its version while another stripe already
\* holds a later one: the writers reach the second loop of commit in the
\* other order than they incremented the clock.
C16_Witness ==
    \E t \in Threads :
        /\ pc[t] = "commit_publish"
        /\ loc[t].todo # {}
        /\ \E i \in DOMAIN lock_ver : lock_ver[i].low > loc[t].ver

\* The step is a step of thread t.
Stepped(t) ==
    <<pc'[t], tr'[t], loc'[t], attempts'[t], call'[t]>>
        # <<pc[t], tr[t], loc[t], attempts[t], call[t]>>

\* t is in WriteTrans::commit.
Committing(t) == pc[t] \in {"commit_write", "commit_publish"}

\* C17: only the attempts in the history (those that passed validation)
\* enter commit, and an attempt that ends otherwise has written no byte and
\* stored no version; every step of a thread outside commit leaves the
\* bytes and the version bits of every lock word as they are, and changes
\* bit 63 only of a stripe of its write set that it locks or had locked;
\* when the loop runs again it holds no lock.
C17_FailedAttemptFrame ==
    /\ [](\A t \in Threads :
            /\ Committing(t) => \E r \in hist : r.id = CurId(t)
            /\ (pc[t] = "drop" /\ after[t] # "some") =>
                  (gh[t].aBytes = 0 /\ gh[t].aPub = 0)
            /\ pc[t] = "new" => OwnsNone(t))
    /\ [][\A t \in Threads :
            (Stepped(t) /\ ~Committing(t)) =>
               /\ mem' = mem
               /\ \A i \in DOMAIN lock_ver :
                     /\ lock_ver'[i].low = lock_ver[i].low
                     /\ lock_ver'[i] # lock_ver[i] =>
                           /\ \E a \in DOMAIN tr[t].write_set : StripeIdx(a) = i
                           /\ owner[i] = t \/ owner'[i] = t]_vars

\* An attempt that had locked a stripe of version above 0 and failed its
\* validation has released it.
C17_Witness ==
    \E t \in Threads :
        /\ pc[t] = "drop"
        /\ after[t] = "retry"
        /\ gh[t].aClock = 1
        /\ gh[t].aLock >= 2
        /\ tr[t].locked = <<>>
        /\ \E a \in DOMAIN tr[t].write_set : get_addr_ver(a) > 0 /\ ~Locked(a)

\* C19: a transaction unlocks and publishes only stripes it locked itself:
\* a stripe it holds in its locked vector is one whose bit 63 it set; in
\* commit it has locked its whole write set and stores versions only in
\* lock words of that set, which it still holds; and no step changes the
\* lock word of a locked stripe unless it is a step of the thread that
\* locked it.
C19_OwnLocksOnly ==
    /\ [](\A t \in Threads :
            /\ \A a \in LockedSet(t) :
                  ~Published(t, a) => (Locked(a) /\ owner[StripeIdx(a)] = t)
            /\ Committing(t) =>
                  /\ LockedSet(t) = DOMAIN tr[t].write_set
                  /\ loc[t].todo \subseteq DOMAIN tr[t].write_set
            /\ pc[t] = "commit_publish" =>
                  \A a \in loc[t].todo : Locked(a) /\ owner[StripeIdx(a)] = t)
    /\ [][\A i \in DOMAIN lock_ver :
            (lock_ver[i].bit63 = 1 /\ lock_ver'[i] # lock_ver[i]) =>
               (owner[i] \in Threads /\ Stepped(owner[i]))]_vars

\* lock_write_set has failed on a stripe the other thread holds, and the
\* attempt is about to release the stripe it had locked itself.
C19_Witness ==
    \E t \in Threads :
        /\ pc[t] = "drop"
        /\ after[t] = "retry"
        /\ WentToLock(t)
        /\ gh[t].aClock = 0
        /\ LockedSet(t) # {}
        /\ \E a \in DOMAIN tr[t].write_set \ LockedSet(t) :
              Locked(a) /\ owner[StripeIdx(a)] \in Threads \ {t}

----------------------------------------------------------------------------
(* The fast path *)

\* The step is the fetch_add of t's attempt, which has a read set and goes
\* on to commit without validate_read_set.
FastPath(t) ==
    /\ pc[t] = "inc"
    /\ pc'[t] \notin {"inc", "validate"}
    /\ tr[t].read_set # {}

\* What validate_read_set would return in the state of the fetch_add.
WouldValidate(t) == \A a \in tr[t].read_set : read_valid(t, a)

\* No write transaction has a commit version above t's read version.
NoCommitSince(t) == \A r \in Committed : r.key <= 2 * tr[t].read_ver

\* C18 as stated: when the fast path is taken no transaction has committed
\* since the attempt sampled the clock, and validate_read_set would return
\* true.
C18_FastPathRedundant ==
    [][\A t \in Threads :
          FastPath(t) => (NoCommitSince(t) /\ WouldValidate(t))]_vars

\* C18, amended: when the fast path is taken no transaction has obtained a
\* commit version since the attempt sampled the clock, and no stripe of the
\* read set has a version above the read version; validate_read_set would
\* return false only for a stripe outside the write set that another
\* attempt has locked and that attempt has not incremented the clock.
C18_FastPathVersions ==
    [][\A t \in Threads :
          FastPath(t) =>
             /\ NoCommitSince(t)
             /\ \A a \in tr[t].read_set :
                   /\ get_addr_ver(a) <= tr[t].read_ver
                   /\ ~read_valid(t, a) =>
                         /\ a \notin DOMAIN tr[t].write_set
                         /\ Locked(a)
                         /\ owner[StripeIdx(a)] \in Threads \ {t}
                         /\ gh[owner[StripeIdx(a)]].aClock = 0]_vars

\* An attempt has just taken the fast path while a stripe of its read set
\* is locked by the other thread.
C18_Witness ==
    \E t \in Threads :
        /\ pc[t] = "commit_write"
        /\ gh[t].aBytes = 0
        /\ loc[t].ver = tr[t].read_ver + 1
        /\ \E a \in tr[t].read_set \ DOMAIN tr[t].write_set :
              Locked(a) /\ owner[StripeIdx(a)] # t

----------------------------------------------------------------------------
(* The dining philosophers *)

\* A pickup transaction of philosopher t has committed true: it stored the
\* two chopsticks.
PickedUp(t) ==
    \E r \in Committed :
        r.id[1] = t /\ prog[t][r.id[2]].loop /\ DOMAIN r.writes # {}

\* The release transaction of philosopher t has committed.
Released(t) ==
    \E r \in Committed : r.id[1] = t /\ ~prog[t][r.id[2]].loop

\* Philosopher t is between the commit of its pickup and that of its release.
Eating(t) == PickedUp(t) /\ ~Released(t)

\* C20: no two philosophers are eating at the same time; a pickup returns
\* true exactly if it stored the chopsticks; and when every philosopher
\* has finished its cycle the first bytes of both stripes are 0.
C20_NeverBothEating ==
    /\ \A t \in Threads : \A u \in Threads \ {t} : ~(Eating(t) /\ Eating(u))
    /\ \A t \in Threads :
         (pc[t] = "idle" /\ call[t] > 0 /\ CurCall(t).loop) =>
            (ReturnedTrue(t) <=> Eating(t))
    /\ AllReturned =>
         \A t \in Threads : mem[Left(t)] = 0 /\ mem[Right(t)] = 0

\* Both philosophers have eaten and finished, one of them after a pickup
\* that returned false.
C20_Witness ==
    /\ AllReturned
    /\ \A t \in Threads : PickedUp(t) /\ Released(t)
    /\ \E t \in Threads : \E i \in DOMAIN result[t] :
          result[t][i].ret = "Some" /\ result[t][i].val = 0 /\ prog[t][i].loop

----------------------------------------------------------------------------
(* Specifications *)

Workloads == {W_Cross, W_Signal, W_Own, W_Back, W_Addr, W_Counter}

Init ==
    /\ InitShared
    /\ InitThreads
    /\ prog \in {[t \in Threads |-> w[t + 1]] : w \in Workloads}

Spec == Init /\ [][Next]_vars

\* The program of src/src/main.rs: every thread is a philosopher.
InitPhil ==
    /\ InitShared
    /\ InitThreads
    /\ prog = [t \in Threads |-> W_Phil[t + 1]]

SpecPhil == InitPhil /\ [][NextW]_vars

====
